---------------------------- MODULE Spec2Model ----------------------------
(***************************************************************************)
(* PSNR/SSIM evaluation scripts of ESRGANplus:                             *)
(*   cal_metrics.py                  basename-substring matching ("cal")   *)
(*   test_image/calculate_metrics.py exact-name matching         ("ti")    *)
(*   calculate_metrics.py            one fixed pair of paths     ("one")   *)
(* One run of one script is one behaviour.  A file name is a string whose  *)
(* characters Chars gives; metric values are fixed-point integers in units *)
(* of 1e-5.                                                                *)
(***************************************************************************)
EXTENDS Integers, Sequences, FiniteSets, TLC

VARIABLES
    prog,           \* which script is run
    pc,             \* position of the script
    exists,         \* the paths for which os.path.exists is true
    dirs,           \* [results, hr]: the file names in the two directories
    disk,           \* whether cv2.imread can decode each file read so far
    cal,            \* locals of cal_metrics.py
    ti,             \* locals of test_image/calculate_metrics.py
    last,           \* locals of the most recent pair that reached the shape step
    pairs,          \* history: one record per pair iteration, in order
    artifact,       \* lines of metrics_results.txt (cal_metrics.py), or NotWritten
    ret,            \* what calculate_metrics returned
    ranges,         \* the value ranges the metric calls of this run were given
    missing_found,  \* an existence check has found a required path missing
    n_imread        \* number of cv2.imread calls made so far

vars == <<prog, pc, exists, dirs, disk, cal, ti, last, pairs, artifact,
          ret, ranges, missing_found, n_imread>>

MaxFiles == 2       \* most file names in one directory

-----------------------------------------------------------------------------
(* Characters and strings *)

AsciiOrder ==
    <<".", "0", "1", "2", "3", "4", "5", "6", "7", "8", "9",
      "A", "B", "E", "G", "J", "M", "N", "P", "T", "X", "_",
      "a", "b", "e", "g", "j", "m", "n", "o", "p", "s", "t", "x">>

OrdTable ==
    [c \in {AsciiOrder[i] : i \in 1..Len(AsciiOrder)} |->
        CHOOSE i \in 1..Len(AsciiOrder) : AsciiOrder[i] = c]

Ord(c) == OrdTable[c]

LowerChar(c) ==
    CASE c = "A" -> "a" [] c = "B" -> "b" [] c = "E" -> "e" [] c = "G" -> "g"
      [] c = "J" -> "j" [] c = "M" -> "m" [] c = "N" -> "n" [] c = "P" -> "p"
      [] c = "T" -> "t" [] c = "X" -> "x" [] OTHER -> c

\* the characters of the file names the directories may hold
Chars(f) ==
    CASE f = "0830_x4.png" -> <<"0", "8", "3", "0", "_", "x", "4", ".", "p", "n", "g">>
      [] f = "0901_x4.png" -> <<"0", "9", "0", "1", "_", "x", "4", ".", "p", "n", "g">>
      [] f = "0830.png"    -> <<"0", "8", "3", "0", ".", "p", "n", "g">>
      [] f = "0901.png"    -> <<"0", "9", "0", "1", ".", "p", "n", "g">>
      [] f = "08.PNG"      -> <<"0", "8", ".", "P", "N", "G">>
      [] f = "0830.bmp"    -> <<"0", "8", "3", "0", ".", "b", "m", "p">>
      [] f = "notes.txt"   -> <<"n", "o", "t", "e", "s", ".", "t", "x", "t">>
      [] f = ".png"        -> <<".", "p", "n", "g">>
      [] f = ".jpg"        -> <<".", "j", "p", "g">>
      [] f = ".jpeg"       -> <<".", "j", "p", "e", "g">>
      [] f = ".bmp"        -> <<".", "b", "m", "p">>

ResultNames == {"0830_x4.png", "0901_x4.png", "0830.png", "0830.bmp", "notes.txt"}
HrNames     == {"0830.png", "0901.png", "08.PNG", "0830.bmp"}

\* s.lower()
Lower(s) == [i \in 1..Len(s) |-> LowerChar(s[i])]

\* s.endswith(suf)
EndsWith(s, suf) ==
    /\ Len(suf) <= Len(s)
    /\ SubSeq(s, Len(s) - Len(suf) + 1, Len(s)) = suf

\* a in b, for strings
IsSubstring(a, b) ==
    \E k \in 0..(Len(b) - Len(a)) : SubSeq(b, k + 1, k + Len(a)) = a

\* a < b, for strings: by code point, a proper prefix first
StrLess(a, b) ==
    \/ /\ Len(a) < Len(b)
       /\ SubSeq(b, 1, Len(a)) = a
    \/ \E i \in 1..Len(a) :
          /\ i <= Len(b)
          /\ SubSeq(a, 1, i - 1) = SubSeq(b, 1, i - 1)
          /\ Ord(a[i]) < Ord(b[i])

NameLess(f, g) == StrLess(Chars(f), Chars(g))

\* the list left in the order given
Unsorted(l) == l

\* sorted(names)
Sorted(l) == SortSeq(l, NameLess)

\* os.path.splitext(f)[0]: cut at the last dot, unless only dots precede it
Splitext0(f) ==
    LET dots == {i \in 1..Len(f) : f[i] = "."}
    IN  IF dots = {} THEN f
        ELSE LET d == CHOOSE i \in dots : \A j \in dots : j <= i
             IN  IF \E j \in 1..(d - 1) : f[j] # "." THEN SubSeq(f, 1, d - 1)
                 ELSE f

\* every directory content with at most MaxFiles of the names S
Folders(S) == {d \in SUBSET S : Cardinality(d) <= MaxFiles}

\* os.listdir(d), or iterating a set: its names in an arbitrary order
Orderings(d) ==
    {l \in [1..Cardinality(d) -> d] : \A i, j \in 1..Cardinality(d) : i # j => l[i] # l[j]}

\* f.lower().endswith(exts)
HasExt(f, exts) == \E e \in exts : EndsWith(Lower(Chars(f)), Chars(e))

\* [f for f in listing if f.lower().endswith(exts)]
RECURSIVE FilterImages(_, _)
FilterImages(l, exts) ==
    IF l = <<>> THEN <<>>
    ELSE LET rest == FilterImages(Tail(l), exts)
         IN  IF HasExt(Head(l), exts) THEN <<Head(l)>> \o rest ELSE rest

CalExts == {".png", ".jpg", ".jpeg"}
TiExts  == {".png", ".jpg", ".jpeg", ".bmp"}

-----------------------------------------------------------------------------
(* Images and the library calls *)

\* the shapes (height, width, channels) a decoded image may have; the shape is
\* drawn when the file is read
Shapes == {<<2, 2, 3>>, <<2, 3, 3>>, <<3, 2, 3>>}

None == [shape |-> <<0, 0, 0>>, dtype |-> "NoneType", peak |-> 0,
         file |-> <<"", "">>, resampled |-> FALSE]

\* whether a file decodes: fixed the first time the file is read
Unread     == "unread"
Unreadable == "unreadable"
Readable   == "readable"
Contents   == {Unreadable, Readable}

ReadsAs(key, c) == c \in Contents /\ (disk[key] = Unread \/ disk[key] = c)

\* cv2.imread(os.path.join(dir, name)): None, or the decoded 8-bit BGR array
Imread(dir, name, content, shape) ==
    IF content = Readable
    THEN [shape |-> shape, dtype |-> "uint8", peak |-> 255,
          file |-> <<dir, name>>, resampled |-> FALSE]
    ELSE None

\* cv2.resize(img, dsize) with dsize = (width, height): the pixels are resampled
Resize(img, dsize) ==
    [img EXCEPT !.shape = <<dsize[2], dsize[1], img.shape[3]>>, !.resampled = TRUE]

\* img.astype(np.float32)
AsFloat32(img) == [img EXCEPT !.dtype = "float32"]

\* img / 255.0
Div255(img) == [img EXCEPT !.peak = 1]

\* (psnr, ssim) results the metric routines may give, in units of 1e-5
MetricSamples == {<<2812342, 81234>>, <<3000007, 99996>>}

RECURSIVE Sum(_)
Sum(s) == IF s = <<>> THEN 0 ELSE Head(s) + Sum(Tail(s))

\* np.mean(values), as the fraction <<numerator, denominator>>
Mean(s) == <<Sum(s), Len(s)>>

NoLast == [read_res |-> None, read_hr |-> None, img_res |-> None, img_hr |-> None,
           resized |-> FALSE, psnr_range |-> 0, ssim_range |-> 0]

\* the ranges of one pair: the data_range given to psnr and to ssim, and the
\* range ceilings of the two arrays given to them
RangeUse(l) == <<l.psnr_range, l.ssim_range, l.img_res.peak, l.img_hr.peak>>

Running    == [kind |-> "running"]
NoneRet    == [kind |-> "None"]
Raised(e)  == [kind |-> "raised", exc |-> e]
NotWritten == <<<<[t |-> "not written", s |-> "", v |-> 0]>>>>

\* the record the history keeps of one pair iteration
Pair(out, gt, outcome, p, s) ==
    [out |-> out, gt |-> gt, outcome |-> outcome, psnr |-> p, ssim |-> s]

-----------------------------------------------------------------------------
(* cal_metrics.py *)

CalPrimaryResults == "test_image/results"
CalAltResults     == "ESRGANplus/results"
CalPrimaryHr      == "test_image/HR"
CalAltHr          == "ESRGANplus/test_image/HR"

CalInit == [results_directory |-> CalPrimaryResults, hr_directory |-> CalPrimaryHr,
            result_files |-> <<>>, hr_files |-> <<>>,
            idx |-> 0, psnr_values |-> <<>>, ssim_values |-> <<>>]

\* lines 95-106: a directory found missing is replaced by its alternative location
CalResolvePaths ==
    /\ prog = "cal" /\ pc = "main"
    /\ cal' = [cal EXCEPT
          !.results_directory =
              IF CalPrimaryResults \in exists THEN CalPrimaryResults ELSE CalAltResults,
          !.hr_directory =
              IF CalPrimaryHr \in exists THEN CalPrimaryHr ELSE CalAltHr]
    /\ missing_found' = (CalPrimaryResults \notin exists \/ CalPrimaryHr \notin exists)
    /\ pc' = "gate"
    /\ UNCHANGED <<prog, ranges, exists, dirs, disk, ti, last, pairs, artifact, ret, n_imread>>

\* line 108
CalBothExist == cal.results_directory \in exists /\ cal.hr_directory \in exists

\* lines 120-126
CalCannotProceed ==
    /\ prog = "cal" /\ pc = "gate"
    /\ ~CalBothExist
    /\ pc' = "done"
    /\ UNCHANGED <<prog, ranges, exists, dirs, disk, cal, ti, last, pairs, artifact, ret,
                   missing_found, n_imread>>

\* lines 12-13
CalScanned(lr, lh) ==
    [cal EXCEPT !.result_files = Sorted(FilterImages(lr, CalExts)),
                !.hr_files = Sorted(FilterImages(lh, CalExts))]

\* lines 19 and 22
CalEmptyReturn == [kind |-> "lists", psnr_values |-> <<>>, ssim_values |-> <<>>]

\* lines 108-109 and 12-22: one of the directories holds no image
CalScanEmpty ==
    /\ prog = "cal" /\ pc = "gate"
    /\ CalBothExist
    /\ \E lr \in Orderings(dirs.results), lh \in Orderings(dirs.hr) :
          LET c == CalScanned(lr, lh)
          IN  /\ c.result_files = <<>> \/ c.hr_files = <<>>
              /\ cal' = c
    /\ ret' = CalEmptyReturn
    /\ pc' = "save"
    /\ UNCHANGED <<prog, ranges, exists, dirs, disk, ti, last, pairs, artifact,
                   missing_found, n_imread>>

\* lines 108-109 and 12-25: both lists are non-empty, the loop starts
CalScan ==
    /\ prog = "cal" /\ pc = "gate"
    /\ CalBothExist
    /\ \E lr \in Orderings(dirs.results), lh \in Orderings(dirs.hr) :
          LET c == CalScanned(lr, lh)
          IN  /\ c.result_files # <<>> /\ c.hr_files # <<>>
              /\ cal' = [c EXCEPT !.idx = 1]
    /\ pc' = "loop"
    /\ UNCHANGED <<prog, ranges, exists, dirs, disk, ti, last, pairs, artifact, ret,
                   missing_found, n_imread>>

\* the last matching file instead of the first
MatchLast(res_file, hr_files) ==
    LET base_name == Splitext0(Chars(res_file))
        hits == {i \in 1..Len(hr_files) :
                    IsSubstring(Splitext0(Chars(hr_files[i])), base_name)}
    IN  IF hits = {} THEN ""
        ELSE hr_files[CHOOSE i \in hits : \A j \in hits : j <= i]

\* lines 29-30: next((f for f in hr_files if splitext(f)[0] in base_name), None);
\* None is written ""
MatchHr(res_file, hr_files) ==
    LET base_name == Splitext0(Chars(res_file))
        hits == {i \in 1..Len(hr_files) :
                    IsSubstring(Splitext0(Chars(hr_files[i])), base_name)}
    IN  IF hits = {} THEN ""
        ELSE hr_files[CHOOSE i \in hits : \A j \in hits : i <= j]

CalInLoop == prog = "cal" /\ pc = "loop" /\ cal.idx <= Len(cal.result_files)
CalResFile == cal.result_files[cal.idx]
CalHrFile == MatchHr(CalResFile, cal.hr_files)

\* lines 27-34: no ground-truth file matches, the output is dropped
CalNoMatch ==
    /\ CalInLoop
    /\ CalHrFile = ""
    /\ pairs' = Append(pairs, Pair(CalResFile, "", "no match", 0, 0))
    /\ cal' = [cal EXCEPT !.idx = @ + 1]
    /\ UNCHANGED <<prog, ranges, pc, exists, dirs, disk, ti, last, artifact, ret,
                   missing_found, n_imread>>

\* lines 27-50: both files are read, one of them gives None
CalUnreadable ==
    /\ CalInLoop
    /\ CalHrFile # ""
    /\ \E cr, ch \in Contents :
          /\ ReadsAs(<<"results", CalResFile>>, cr)
          /\ ReadsAs(<<"hr", CalHrFile>>, ch)
          /\ cr = Unreadable \/ ch = Unreadable
          /\ disk' = [disk EXCEPT ![<<"results", CalResFile>>] = cr,
                                  ![<<"hr", CalHrFile>>] = ch]
          /\ pairs' = Append(pairs, Pair(CalResFile, CalHrFile,
                 IF cr = Unreadable THEN "output unreadable" ELSE "gt unreadable", 0, 0))
    /\ n_imread' = n_imread + 2
    /\ cal' = [cal EXCEPT !.idx = @ + 1]
    /\ UNCHANGED <<prog, ranges, pc, exists, dirs, ti, last, artifact, ret, missing_found>>

\* the resize called with (height, width)
CalReconcileSwapped(img_res, img_hr) ==
    IF img_res.shape # img_hr.shape
    THEN Resize(img_res, <<img_hr.shape[1], img_hr.shape[2]>>)
    ELSE img_res

\* lines 53-55: cv2.resize(img_res, (img_hr.shape[1], img_hr.shape[0]))
CalReconcile(img_res, img_hr) ==
    IF img_res.shape # img_hr.shape
    THEN Resize(img_res, <<img_hr.shape[2], img_hr.shape[1]>>)
    ELSE img_res

\* the scaling to the 0-1 range left out
CalNormalizeUnscaled(img) == AsFloat32(img)

\* lines 58-59
CalNormalize(img) == Div255(AsFloat32(img))

\* lines 63-64: the data_range given to psnr and to ssim
CalPsnrRange == 1
CalSsimRange == 1

\* lines 42-64: the locals of a pair whose two images were read
CalLocals(sr, sh) ==
    LET read_res == Imread("results", CalResFile, Readable, sr)
        read_hr  == Imread("hr", CalHrFile, Readable, sh)
    IN  [read_res |-> read_res, read_hr |-> read_hr,
         img_res |-> CalNormalize(CalReconcile(read_res, read_hr)),
         img_hr |-> CalNormalize(read_hr),
         resized |-> read_res.shape # read_hr.shape,
         psnr_range |-> CalPsnrRange, ssim_range |-> CalSsimRange]

\* lines 27-69: both metrics are computed and appended
CalMetrics ==
    /\ CalInLoop
    /\ CalHrFile # ""
    /\ ReadsAs(<<"results", CalResFile>>, Readable)
    /\ ReadsAs(<<"hr", CalHrFile>>, Readable)
    /\ disk' = [disk EXCEPT ![<<"results", CalResFile>>] = Readable,
                            ![<<"hr", CalHrFile>>] = Readable]
    /\ \E sr, sh \in Shapes, m \in MetricSamples :
          /\ last' = CalLocals(sr, sh)
          /\ pairs' = Append(pairs, Pair(CalResFile, CalHrFile, "ok", m[1], m[2]))
          /\ cal' = [cal EXCEPT !.psnr_values = Append(@, m[1]),
                                !.ssim_values = Append(@, m[2]),
                                !.idx = @ + 1]
    /\ ranges' = ranges \cup {RangeUse(last')}
    /\ n_imread' = n_imread + 2
    /\ UNCHANGED <<prog, pc, exists, dirs, ti, artifact, ret, missing_found>>

\* lines 27-64 and 70-72: psnr or ssim raises, the except clause continues
CalMetricsError ==
    /\ CalInLoop
    /\ CalHrFile # ""
    /\ ReadsAs(<<"results", CalResFile>>, Readable)
    /\ ReadsAs(<<"hr", CalHrFile>>, Readable)
    /\ disk' = [disk EXCEPT ![<<"results", CalResFile>>] = Readable,
                            ![<<"hr", CalHrFile>>] = Readable]
    /\ \E sr, sh \in Shapes : last' = CalLocals(sr, sh)
    /\ pairs' = Append(pairs, Pair(CalResFile, CalHrFile, "metric error", 0, 0))
    /\ ranges' = ranges \cup {RangeUse(last')}
    /\ n_imread' = n_imread + 2
    /\ cal' = [cal EXCEPT !.idx = @ + 1]
    /\ UNCHANGED <<prog, pc, exists, dirs, ti, artifact, ret, missing_found>>

\* lines 74-83
CalReturn ==
    /\ prog = "cal" /\ pc = "loop" /\ cal.idx > Len(cal.result_files)
    /\ ret' = [kind |-> "lists", psnr_values |-> cal.psnr_values,
               ssim_values |-> cal.ssim_values]
    /\ pc' = "save"
    /\ UNCHANGED <<prog, ranges, exists, dirs, disk, cal, ti, last, pairs, artifact,
                   missing_found, n_imread>>

\* n/d, its fraction cut off
Truncate(n, d) == n \div d

\* n/d rounded to the nearest integer, a tie to the even one

RoundHalfEven(n, d) ==
    LET q == n \div d
        r == n % d
    IN  IF 2 * r < d THEN q
        ELSE IF 2 * r > d THEN q + 1
        ELSE IF q % 2 = 0 THEN q ELSE q + 1

\* f"{x:.4f}" of the value n/d (in units of 1e-5): its digits, in units of 1e-4
Fmt4(n, d) == RoundHalfEven(n, d * 10)

Lit(s) == [t |-> "lit", s |-> s, v |-> 0]
Num4(v) == [t |-> "num4", s |-> "", v |-> v]

\* line 113
HeaderLine == <<Lit("PSNR,SSIM")>>
\* line 115
PairLine(p, s) == <<Num4(Fmt4(p, 1)), Lit(","), Num4(Fmt4(s, 1))>>
\* lines 117-118: "\nAverage PSNR: ... dB\n" and "Average SSIM: ...\n"
BlankLine == <<>>
AvgPsnrLine(m) == <<Lit("Average PSNR: "), Num4(Fmt4(m[1], m[2])), Lit(" dB")>>
AvgSsimLine(m) == <<Lit("Average SSIM: "), Num4(Fmt4(m[1], m[2]))>>

\* line 114: zip(psnr_values, ssim_values)
Zip(a, b) ==
    LET n == IF Len(a) < Len(b) THEN Len(a) ELSE Len(b)
    IN  [i \in 1..n |-> <<a[i], b[i]>>]

\* lines 112-118: the text written to metrics_results.txt
CalArtifact(psnr_values, ssim_values) ==
    LET z == Zip(psnr_values, ssim_values)
    IN  <<HeaderLine>>
        \o [i \in 1..Len(z) |-> PairLine(z[i][1], z[i][2])]
        \o (IF psnr_values # <<>>
            THEN <<BlankLine, AvgPsnrLine(Mean(psnr_values)),
                   AvgSsimLine(Mean(ssim_values))>>
            ELSE <<>>)

\* lines 109-119
CalSave ==
    /\ prog = "cal" /\ pc = "save"
    /\ artifact' = CalArtifact(ret.psnr_values, ret.ssim_values)
    /\ pc' = "done"
    /\ UNCHANGED <<prog, ranges, exists, dirs, disk, cal, ti, last, pairs, ret,
                   missing_found, n_imread>>

-----------------------------------------------------------------------------
(* test_image/calculate_metrics.py *)

TiResults == "results"
TiHr      == "HR"

TiInit == [common_files |-> {}, order |-> <<>>, idx |-> 0,
           psnr_values |-> <<>>, ssim_values |-> <<>>, processed_files |-> <<>>]

\* a handler for FileNotFoundError alone
TiExceptOnlyMissing(e) == IF e = "FileNotFoundError" THEN NoneRet ELSE Raised(e)

\* lines 101-103: except Exception: return None
TiExcept(e) == NoneRet

\* where the script goes once calculate_metrics has ended with r
TiAfter(r) == IF r.kind = "raised" THEN "crashed" ELSE "report"

\* lines 9-12 and 101-103: a directory is missing
TiDirMissing ==
    /\ prog = "ti" /\ pc = "main"
    /\ TiHr \notin exists \/ TiResults \notin exists
    /\ missing_found' = TRUE
    /\ ret' = TiExcept("FileNotFoundError")
    /\ pc' = TiAfter(ret')
    /\ UNCHANGED <<prog, ranges, exists, dirs, disk, cal, ti, last, pairs, artifact, n_imread>>

\* the names of either list
CommonOrEither(output_files, gt_files) ==
    {output_files[i] : i \in 1..Len(output_files)} \cup {gt_files[i] : i \in 1..Len(gt_files)}

\* line 39: set(output_files) & set(gt_files)
Common(output_files, gt_files) ==
    {output_files[i] : i \in 1..Len(output_files)} \cap {gt_files[i] : i \in 1..Len(gt_files)}

\* lines 14-20 and 101-103: a directory holds no image
TiNoImages ==
    /\ prog = "ti" /\ pc = "main"
    /\ TiHr \in exists /\ TiResults \in exists
    /\ \E lo \in Orderings(dirs.results), lg \in Orderings(dirs.hr) :
          FilterImages(lg, TiExts) = <<>> \/ FilterImages(lo, TiExts) = <<>>
    /\ ret' = TiExcept("ValueError")
    /\ pc' = TiAfter(ret')
    /\ UNCHANGED <<prog, ranges, exists, dirs, disk, cal, ti, last, pairs, artifact,
                   missing_found, n_imread>>

\* lines 14-22, 39-41 and 101-103: no name is in both lists
TiNoCommon ==
    /\ prog = "ti" /\ pc = "main"
    /\ TiHr \in exists /\ TiResults \in exists
    /\ \E lo \in Orderings(dirs.results), lg \in Orderings(dirs.hr) :
          LET output_files == FilterImages(lo, TiExts)
              gt_files == FilterImages(lg, TiExts)
          IN  /\ gt_files # <<>> /\ output_files # <<>>
              /\ Common(output_files, gt_files) = {}
    /\ ret' = TiExcept("ValueError")
    /\ pc' = TiAfter(ret')
    /\ UNCHANGED <<prog, ranges, exists, dirs, disk, cal, ti, last, pairs, artifact,
                   missing_found, n_imread>>

\* lines 14-22 and 39-47: the loop starts over sorted(common_files)
TiStart ==
    /\ prog = "ti" /\ pc = "main"
    /\ TiHr \in exists /\ TiResults \in exists
    /\ \E lo \in Orderings(dirs.results), lg \in Orderings(dirs.hr) :
          LET output_files == FilterImages(lo, TiExts)
              gt_files == FilterImages(lg, TiExts)
              common_files == Common(output_files, gt_files)
          IN  /\ gt_files # <<>> /\ output_files # <<>>
              /\ common_files # {}
              /\ \E l \in Orderings(common_files) :
                    ti' = [ti EXCEPT !.common_files = common_files,
                                     !.order = Sorted(l), !.idx = 1]
    /\ pc' = "loop"
    /\ UNCHANGED <<prog, ranges, exists, dirs, disk, cal, last, pairs, artifact, ret,
                   missing_found, n_imread>>

TiInLoop == prog = "ti" /\ pc = "loop" /\ ti.idx <= Len(ti.order)
TiFile == ti.order[ti.idx]

\* lines 47-60: both files are read, one of them gives None
TiUnreadable ==
    /\ TiInLoop
    /\ \E co, cg \in Contents :
          /\ ReadsAs(<<"results", TiFile>>, co)
          /\ ReadsAs(<<"hr", TiFile>>, cg)
          /\ co = Unreadable \/ cg = Unreadable
          /\ disk' = [disk EXCEPT ![<<"results", TiFile>>] = co,
                                  ![<<"hr", TiFile>>] = cg]
          /\ pairs' = Append(pairs, Pair(TiFile, TiFile,
                 IF co = Unreadable THEN "output unreadable" ELSE "gt unreadable", 0, 0))
    /\ n_imread' = n_imread + 2
    /\ ti' = [ti EXCEPT !.idx = @ + 1]
    /\ UNCHANGED <<prog, ranges, pc, exists, dirs, cal, last, artifact, ret, missing_found>>

\* lines 63-65: cv2.resize(img_out, (img_gt.shape[1], img_gt.shape[0]))
TiReconcile(img_out, img_gt) ==
    IF img_out.shape # img_gt.shape
    THEN Resize(img_out, <<img_gt.shape[2], img_gt.shape[1]>>)
    ELSE img_out

\* lines 68-69
TiNormalize(img) == AsFloat32(img)

\* lines 72-73: the data_range given to psnr and to ssim
TiPsnrRange == 255
TiSsimRange == 255

\* lines 52-73: the locals of a pair whose two images were read
TiLocals(so, sg) ==
    LET read_out == Imread("results", TiFile, Readable, so)
        read_gt  == Imread("hr", TiFile, Readable, sg)
    IN  [read_res |-> read_out, read_hr |-> read_gt,
         img_res |-> TiNormalize(TiReconcile(read_out, read_gt)),
         img_hr |-> TiNormalize(read_gt),
         resized |-> read_out.shape # read_gt.shape,
         psnr_range |-> TiPsnrRange, ssim_range |-> TiSsimRange]

\* lines 47-79: both metrics are computed and appended
TiMetrics ==
    /\ TiInLoop
    /\ ReadsAs(<<"results", TiFile>>, Readable)
    /\ ReadsAs(<<"hr", TiFile>>, Readable)
    /\ disk' = [disk EXCEPT ![<<"results", TiFile>>] = Readable,
                            ![<<"hr", TiFile>>] = Readable]
    /\ \E so, sg \in Shapes, m \in MetricSamples :
          /\ last' = TiLocals(so, sg)
          /\ pairs' = Append(pairs, Pair(TiFile, TiFile, "ok", m[1], m[2]))
          /\ ti' = [ti EXCEPT !.psnr_values = Append(@, m[1]),
                              !.ssim_values = Append(@, m[2]),
                              !.processed_files = Append(@, TiFile),
                              !.idx = @ + 1]
    /\ ranges' = ranges \cup {RangeUse(last')}
    /\ n_imread' = n_imread + 2
    /\ UNCHANGED <<prog, pc, exists, dirs, cal, artifact, ret, missing_found>>

\* lines 47-73 and 101-103: psnr or ssim raises; no handler in the loop, so the
\* function's except clause ends the run of the loop
TiMetricsError ==
    /\ TiInLoop
    /\ ReadsAs(<<"results", TiFile>>, Readable)
    /\ ReadsAs(<<"hr", TiFile>>, Readable)
    /\ disk' = [disk EXCEPT ![<<"results", TiFile>>] = Readable,
                            ![<<"hr", TiFile>>] = Readable]
    /\ \E so, sg \in Shapes : last' = TiLocals(so, sg)
    /\ pairs' = Append(pairs, Pair(TiFile, TiFile, "metric error", 0, 0))
    /\ ranges' = ranges \cup {RangeUse(last')}
    /\ n_imread' = n_imread + 2
    /\ ret' = TiExcept("Exception")
    /\ pc' = TiAfter(ret')
    /\ UNCHANGED <<prog, exists, dirs, cal, ti, artifact, missing_found>>

\* lines 81-82 and 101-103: no pair gave a value
TiNoValid ==
    /\ prog = "ti" /\ pc = "loop" /\ ti.idx > Len(ti.order)
    /\ ti.psnr_values = <<>>
    /\ ret' = TiExcept("ValueError")
    /\ pc' = TiAfter(ret')
    /\ UNCHANGED <<prog, ranges, exists, dirs, disk, cal, ti, last, pairs, artifact,
                   missing_found, n_imread>>

\* lines 84-99
TiReturn ==
    /\ prog = "ti" /\ pc = "loop" /\ ti.idx > Len(ti.order)
    /\ ti.psnr_values # <<>>
    /\ ret' = [kind |-> "dict", psnr |-> Mean(ti.psnr_values), ssim |-> Mean(ti.ssim_values),
               psnr_values |-> ti.psnr_values, ssim_values |-> ti.ssim_values,
               processed_files |-> ti.processed_files]
    /\ pc' = "report"
    /\ UNCHANGED <<prog, ranges, exists, dirs, disk, cal, ti, last, pairs, artifact,
                   missing_found, n_imread>>

\* lines 114-120
TiReport ==
    /\ prog = "ti" /\ pc = "report"
    /\ pc' = "done"
    /\ UNCHANGED <<prog, ranges, exists, dirs, disk, cal, ti, last, pairs, artifact, ret,
                   missing_found, n_imread>>

-----------------------------------------------------------------------------
(* calculate_metrics.py *)

OneHr == "./hr"
OneSr == "./results"

\* lines 38-41: a missing path is only reported
OneVerify ==
    /\ prog = "one" /\ pc = "main"
    /\ missing_found' = (OneHr \notin exists \/ OneSr \notin exists)
    /\ pc' = "call"
    /\ UNCHANGED <<prog, ranges, exists, dirs, disk, cal, ti, last, pairs, artifact, ret, n_imread>>

\* what cv2.imread may find at a path: nothing when the path does not exist
OneReadsAs(path, c) == c \in Contents /\ (path \notin exists => c = Unreadable)

\* lines 45, 8-15 and 47-48: both paths are read, one of them gives None
OneNotLoaded ==
    /\ prog = "one" /\ pc = "call"
    /\ \E ch, cs \in Contents :
          /\ OneReadsAs(OneHr, ch) /\ OneReadsAs(OneSr, cs)
          /\ ch = Unreadable \/ cs = Unreadable
          /\ disk' = [disk EXCEPT ![<<"hr", "">>] = ch, ![<<"results", "">>] = cs]
          /\ pairs' = Append(pairs, Pair("", "",
                 IF ch = Unreadable THEN "gt unreadable" ELSE "output unreadable", 0, 0))
    /\ n_imread' = n_imread + 2
    /\ ret' = Raised("ValueError")
    /\ pc' = "done"
    /\ UNCHANGED <<prog, ranges, exists, dirs, cal, ti, last, artifact, missing_found>>

\* lines 18-19: cv2.resize(sr_img, (hr_img.shape[1], hr_img.shape[0]))
OneReconcile(sr_img, hr_img) ==
    IF hr_img.shape # sr_img.shape
    THEN Resize(sr_img, <<hr_img.shape[2], hr_img.shape[1]>>)
    ELSE sr_img

\* line 26: cv2.PSNR(hr_img, sr_img), whose peak value R is 255; line 27
OnePsnrRange == 255
OneSsimRange == 255

\* lines 8-27
OneLocals(ss, sh) ==
    LET read_sr == Imread("results", "", Readable, ss)
        read_hr == Imread("hr", "", Readable, sh)
    IN  [read_res |-> read_sr, read_hr |-> read_hr,
         img_res |-> OneReconcile(read_sr, read_hr), img_hr |-> read_hr,
         resized |-> read_sr.shape # read_hr.shape,
         psnr_range |-> OnePsnrRange, ssim_range |-> OneSsimRange]

\* lines 45-46 and 8-29
OneMetrics ==
    /\ prog = "one" /\ pc = "call"
    /\ OneReadsAs(OneHr, Readable) /\ OneReadsAs(OneSr, Readable)
    /\ disk' = [disk EXCEPT ![<<"hr", "">>] = Readable, ![<<"results", "">>] = Readable]
    /\ \E ss, sh \in Shapes, m \in MetricSamples :
          /\ last' = OneLocals(ss, sh)
          /\ pairs' = Append(pairs, Pair("", "", "ok", m[1], m[2]))
          /\ ret' = [kind |-> "tuple", psnr |-> m[1], ssim_val |-> m[2]]
    /\ ranges' = ranges \cup {RangeUse(last')}
    /\ n_imread' = n_imread + 2
    /\ pc' = "done"
    /\ UNCHANGED <<prog, exists, dirs, cal, ti, artifact, missing_found>>

\* lines 45, 8-27 and 47-48: a library call raises
OneMetricsError ==
    /\ prog = "one" /\ pc = "call"
    /\ OneReadsAs(OneHr, Readable) /\ OneReadsAs(OneSr, Readable)
    /\ disk' = [disk EXCEPT ![<<"hr", "">>] = Readable, ![<<"results", "">>] = Readable]
    /\ \E ss, sh \in Shapes : last' = OneLocals(ss, sh)
    /\ pairs' = Append(pairs, Pair("", "", "metric error", 0, 0))
    /\ ranges' = ranges \cup {RangeUse(last')}
    /\ n_imread' = n_imread + 2
    /\ ret' = Raised("Exception")
    /\ pc' = "done"
    /\ UNCHANGED <<prog, exists, dirs, cal, ti, artifact, missing_found>>

-----------------------------------------------------------------------------
(* The runs *)

Keys == {"results", "hr"} \X (ResultNames \cup HrNames \cup {""})

\* which paths exist when the script starts
ExistsChoices(p) ==
    CASE p = "cal" -> {r \cup h : r \in {{CalPrimaryResults}, {CalAltResults}, {}},
                                  h \in {{CalPrimaryHr}, {CalAltHr}, {}}}
      [] p = "ti"  -> SUBSET {TiResults, TiHr}
      [] p = "one" -> SUBSET {OneHr, OneSr}

\* the directory a script lists exists
ResultsPresent(p, e) ==
    \/ p = "cal" /\ (CalPrimaryResults \in e \/ CalAltResults \in e)
    \/ p = "ti" /\ TiResults \in e
HrPresent(p, e) ==
    \/ p = "cal" /\ (CalPrimaryHr \in e \/ CalAltHr \in e)
    \/ p = "ti" /\ TiHr \in e

Init ==
    /\ prog \in {"cal", "ti", "one"}
    /\ pc = "main"
    /\ exists \in ExistsChoices(prog)
    /\ dirs \in [results : IF ResultsPresent(prog, exists) THEN Folders(ResultNames) ELSE {{}},
                 hr : IF HrPresent(prog, exists) THEN Folders(HrNames) ELSE {{}}]
    /\ disk = [k \in Keys |-> Unread]
    /\ cal = CalInit
    /\ ti = TiInit
    /\ last = NoLast
    /\ pairs = <<>>
    /\ artifact = NotWritten
    /\ ret = Running
    /\ ranges = {}
    /\ missing_found = FALSE
    /\ n_imread = 0

Next ==
    \/ CalResolvePaths
    \/ CalCannotProceed
    \/ CalScanEmpty
    \/ CalScan
    \/ CalNoMatch
    \/ CalUnreadable
    \/ CalMetrics
    \/ CalMetricsError
    \/ CalReturn
    \/ CalSave
    \/ TiDirMissing
    \/ TiNoImages
    \/ TiNoCommon
    \/ TiStart
    \/ TiUnreadable
    \/ TiMetrics
    \/ TiMetricsError
    \/ TiNoValid
    \/ TiReturn
    \/ TiReport
    \/ OneVerify
    \/ OneNotLoaded
    \/ OneMetrics
    \/ OneMetricsError

Spec == Init /\ [][Next]_vars

-----------------------------------------------------------------------------
(* What the claims speak of *)

ImagesOf(d, exts) == {f \in d : HasExt(f, exts)}
Base(f) == Splitext0(Chars(f))

IsOk(e) == e.outcome = "ok"
IsFailed(e) == e.outcome \in {"output unreadable", "gt unreadable", "metric error"}

OkPairs == SelectSeq(pairs, IsOk)
FailedPairs == SelectSeq(pairs, IsFailed)

Evaluator == prog \in {"cal", "ti"}
\* calculate_metrics has ended
Ended == Evaluator /\ pc \in {"save", "report", "done", "crashed"} /\ ret # Running

\* the files the loop of the run goes over
Scanned == IF prog = "cal" THEN cal.result_files ELSE ti.order

\* the values the run hands on to the mean and to its caller
ReturnedPsnr == IF ret.kind \in {"lists", "dict"} THEN ret.psnr_values ELSE <<>>
ReturnedSsim == IF ret.kind \in {"lists", "dict"} THEN ret.ssim_values ELSE <<>>

\* the pairs the matcher forms in this run
NumMatched ==
    IF prog = "cal"
    THEN Cardinality({i \in 1..Len(cal.result_files) :
                         MatchHr(cal.result_files[i], cal.hr_files) # ""})
    ELSE Cardinality(ti.common_files)

Abs(x) == IF x < 0 THEN -x ELSE x

\* C1: in both directory evaluators a failing pair (unreadable image, or an error
\* raised by psnr/ssim) never aborts the run: once the evaluator has ended, every
\* file of the loop has been processed and the values of the pairs that succeeded
\* are the ones returned.
C1_FailureNeverAborts ==
    (Ended /\ pairs # <<>>) =>
        /\ Len(pairs) = Len(Scanned)
        /\ ReturnedPsnr = [i \in 1..Len(OkPairs) |-> OkPairs[i].psnr]
        /\ ReturnedSsim = [i \in 1..Len(OkPairs) |-> OkPairs[i].ssim]

\* C2: once an existence check has found a required input path missing, no image
\* is loaded: the number of cv2.imread calls never grows afterwards.
C2_NoImreadAfterMissing == [][missing_found => n_imread' = n_imread]_vars

\* C3: basename-substring matching pairs every output file with the first file, in
\* sorted order of the ground-truth names, whose base name is a substring of the
\* output's base name; an output is paired at most once, an output without such a
\* file is dropped and gives no metric; the 0830/0901 example gives its two pairs.
C3_FirstSortedSubstringMatch ==
    prog = "cal" =>
        /\ \A i \in 1..Len(pairs) :
              LET e == pairs[i]
                  cands == {h \in ImagesOf(dirs.hr, CalExts) :
                               IsSubstring(Base(h), Base(e.out))}
              IN  IF cands = {}
                  THEN e.gt = "" /\ e.outcome = "no match"
                  ELSE /\ e.gt \in cands
                       /\ \A h \in cands : h = e.gt \/ NameLess(e.gt, h)
        /\ \A i, j \in 1..Len(pairs) : i # j => pairs[i].out # pairs[j].out
        /\ Len(cal.psnr_values) = Len(OkPairs)
        /\ Len(cal.ssim_values) = Len(OkPairs)
        /\ \A i \in 1..Len(OkPairs) : OkPairs[i].gt # ""
        /\ (/\ pc \in {"save", "done"}
            /\ ImagesOf(dirs.results, CalExts) = {"0830_x4.png", "0901_x4.png"}
            /\ ImagesOf(dirs.hr, CalExts) = {"0830.png", "0901.png"}
            /\ CalBothExist)
           => [i \in 1..Len(pairs) |-> <<pairs[i].out, pairs[i].gt>>]
                 = << <<"0830_x4.png", "0830.png">>, <<"0901_x4.png", "0901.png">> >>

\* two ground-truth base names are substrings of the output's, the first one is taken
C3_Witness ==
    /\ prog = "cal"
    /\ {"08.PNG", "0830.png"} \subseteq dirs.hr
    /\ \E i \in 1..Len(pairs) :
          pairs[i].out = "0830_x4.png" /\ pairs[i].gt = "08.PNG" /\ pairs[i].outcome = "ok"

\* C4: exact-name matching forms a pair only for a name that is in both file
\* lists; when both lists are non-empty and share no name, no pair is formed, no
\* image is decoded and the evaluator returns None without raising.
C4_ExactNameMatching ==
    prog = "ti" =>
        LET outs == ImagesOf(dirs.results, TiExts)
            gts  == ImagesOf(dirs.hr, TiExts)
        IN  /\ \A i \in 1..Len(pairs) :
                  /\ pairs[i].out = pairs[i].gt
                  /\ pairs[i].out \in outs \cap gts
            /\ (/\ pc \in {"report", "done", "crashed"}
                /\ {TiResults, TiHr} \subseteq exists
                /\ outs # {} /\ gts # {} /\ outs \cap gts = {})
               => /\ ret = NoneRet
                  /\ pc # "crashed"
                  /\ pairs = <<>>
                  /\ n_imread = 0

\* the example of the claim: suffixed outputs, plain ground-truth names
C4_Witness ==
    /\ prog = "ti" /\ pc = "done"
    /\ dirs.results = {"0830_x4.png", "0901_x4.png"}
    /\ dirs.hr = {"0830.png", "0901.png"}
    /\ ret = NoneRet

\* C5: the values that enter the mean are those of the successful pairs: once the
\* evaluator has ended, the number of PSNR values and of SSIM values handed on
\* is the number of matched pairs less the number of pairs that failed.
C5_MeanOverSuccesses ==
    Ended =>
        /\ Len(ReturnedPsnr) = NumMatched - Len(FailedPairs)
        /\ Len(ReturnedSsim) = NumMatched - Len(FailedPairs)

\* C6: with both directories present, a run in which no pair succeeds (a
\* directory without images, no pair formed, or every pair failing) returns two
\* empty lists (basename-substring) or None (exact-name); no exception leaves
\* the evaluator and the script does not crash.
C6_LogicalConditionsNeverCrash ==
    Evaluator =>
        /\ pc # "crashed"
        /\ ret.kind # "raised"
        /\ (Ended /\ OkPairs = <<>> /\ prog = "cal") => ret = CalEmptyReturn
        /\ (Ended /\ OkPairs = <<>> /\ prog = "ti") => ret = NoneRet
        /\ (prog = "ti" /\ pc = "done") => ret.kind \in {"None", "dict"}
        /\ (prog = "cal" /\ pc = "done" /\ CalBothExist) => ret.kind = "lists"

\* every pair of an exact-name run failed on an unreadable image
C6_Witness ==
    /\ prog = "ti" /\ pc = "done"
    /\ pairs # <<>>
    /\ \A i \in 1..Len(pairs) : IsFailed(pairs[i])
    /\ \E i \in 1..Len(pairs) : pairs[i].outcome = "output unreadable"
    /\ ret = NoneRet

\* re-parsing a line of the artifact
IsPairLine(l) ==
    /\ Len(l) = 3
    /\ l[1].t = "num4" /\ l[2] = Lit(",") /\ l[3].t = "num4"
IsAvgPsnrLine(l) ==
    /\ Len(l) = 3
    /\ l[1] = Lit("Average PSNR: ") /\ l[2].t = "num4" /\ l[3] = Lit(" dB")
IsAvgSsimLine(l) ==
    /\ Len(l) = 2
    /\ l[1] = Lit("Average SSIM: ") /\ l[2].t = "num4"

Written == prog = "cal" /\ pc = "done" /\ artifact # NotWritten

\* a number of 4 decimals (units of 1e-4) is the value n/d (units of 1e-5) rounded
Rounds(v4, n, d) == Abs(10 * v4 * d - n) * 2 <= 10 * d

\* C7 as claimed: the artifact is one "psnr,ssim" line per successful pair, in
\* processing order, then a blank line and the two summary lines; re-parsing gives
\* the pairs' values and their averages back.
C7_RoundTripAsClaimed ==
    Written =>
        LET n == Len(OkPairs)
        IN  /\ Len(artifact) = n + 3
            /\ \A i \in 1..n :
                  /\ IsPairLine(artifact[i])
                  /\ 10 * artifact[i][1].v = OkPairs[i].psnr
                  /\ 10 * artifact[i][3].v = OkPairs[i].ssim
            /\ artifact[n + 1] = BlankLine
            /\ IsAvgPsnrLine(artifact[n + 2])
            /\ 10 * artifact[n + 2][2].v * n = Sum(ReturnedPsnr)
            /\ IsAvgSsimLine(artifact[n + 3])
            /\ 10 * artifact[n + 3][2].v * n = Sum(ReturnedSsim)

\* C7, amended: the artifact is the header line "PSNR,SSIM", then one "psnr,ssim"
\* line per successful pair in processing order, each number the pair's value
\* rounded to 4 decimals, and, only when a pair succeeded, a blank line and the
\* two summary lines, each the mean of the unrounded values rounded to 4 decimals;
\* re-parsing finds exactly as many per-pair records as pairs succeeded.
C7_RoundTripWithHeader ==
    Written =>
        LET n == Len(OkPairs)
        IN  /\ artifact[1] = HeaderLine
            /\ Len(artifact) = IF n = 0 THEN 1 ELSE n + 4
            /\ \A i \in 1..n :
                  /\ IsPairLine(artifact[i + 1])
                  /\ Rounds(artifact[i + 1][1].v, OkPairs[i].psnr, 1)
                  /\ Rounds(artifact[i + 1][3].v, OkPairs[i].ssim, 1)
            /\ Cardinality({i \in 1..Len(artifact) : IsPairLine(artifact[i])}) = n
            /\ n > 0 =>
                  /\ artifact[n + 2] = BlankLine
                  /\ IsAvgPsnrLine(artifact[n + 3])
                  /\ Rounds(artifact[n + 3][2].v, Sum(ReturnedPsnr), n)
                  /\ IsAvgSsimLine(artifact[n + 4])
                  /\ Rounds(artifact[n + 4][2].v, Sum(ReturnedSsim), n)

\* an artifact of two pairs with different values
C7_Witness ==
    /\ Written
    /\ Len(OkPairs) >= 2
    /\ OkPairs[1].psnr # OkPairs[2].psnr
    /\ Len(artifact) = Len(OkPairs) + 4

Reconciled == last # NoLast

\* C8: the shape step changes the output image only: the ground-truth image keeps
\* its shape and pixels, the output is resampled exactly when its shape differs
\* from the ground truth's, is left as read when the shapes agree, and after the
\* step has the ground truth's height and width.
C8_OnlyOutputResized ==
    Reconciled =>
        /\ last.img_hr.shape = last.read_hr.shape
        /\ last.img_hr.file = last.read_hr.file
        /\ ~last.img_hr.resampled
        /\ last.img_res.file = last.read_res.file
        /\ last.img_res.resampled <=> (last.read_res.shape # last.read_hr.shape)
        /\ last.resized <=> last.img_res.resampled
        /\ (last.read_res.shape = last.read_hr.shape)
              => last.img_res.shape = last.read_res.shape
        /\ last.img_res.shape[1] = last.img_hr.shape[1]
        /\ last.img_res.shape[2] = last.img_hr.shape[2]

\* an output narrower than its ground truth has been resized in cal_metrics.py
C8_Witness ==
    /\ prog = "cal" /\ Reconciled
    /\ last.read_res.shape = <<2, 2, 3>>
    /\ last.read_hr.shape = <<2, 3, 3>>
    /\ last.img_res.shape = <<2, 3, 3>>
    /\ last.img_res.resampled

\* C9: one value range per run: for every pair the two arrays given to the
\* metrics have the same range ceiling, psnr and ssim are given that ceiling as
\* data_range, and all pairs of a run use the same one.
C9_SingleValueRange ==
    /\ \A r \in ranges : r[1] = r[2] /\ r[3] = r[4] /\ r[1] = r[3]
    /\ Cardinality(ranges) <= 1
    /\ Reconciled => RangeUse(last) \in ranges
    /\ Reconciled => last.img_res.dtype = last.img_hr.dtype

\* two pairs of a cal_metrics.py run have been given to the metrics
C9_Witness ==
    /\ prog = "cal"
    /\ Len(SelectSeq(pairs, LAMBDA e : e.outcome \in {"ok", "metric error"})) >= 2
    /\ ranges = {<<1, 1, 1, 1>>}

\* the result lists of the run
PsnrValues == IF prog = "cal" THEN cal.psnr_values ELSE ti.psnr_values
SsimValues == IF prog = "cal" THEN cal.ssim_values ELSE ti.ssim_values

\* C10: in the pair loop the result lists always have the same length, their
\* i-th entries come from the same pair, every scanned file gives at most one
\* entry, and the entries are in the sorted order of the file names whatever the
\* order of the directory listing.
C10_ParallelSortedLists ==
    Evaluator =>
        /\ Len(PsnrValues) = Len(SsimValues)
        /\ prog = "ti" => Len(ti.processed_files) = Len(ti.psnr_values)
        /\ PsnrValues = [i \in 1..Len(OkPairs) |-> OkPairs[i].psnr]
        /\ SsimValues = [i \in 1..Len(OkPairs) |-> OkPairs[i].ssim]
        /\ prog = "ti" => ti.processed_files = [i \in 1..Len(OkPairs) |-> OkPairs[i].out]
        /\ \A i, j \in 1..Len(pairs) : i < j => NameLess(pairs[i].out, pairs[j].out)
        /\ \A i \in 1..Len(pairs) :
              pairs[i].out \in ImagesOf(dirs.results, IF prog = "cal" THEN CalExts ELSE TiExts)

\* two pairs with different values have been appended
C10_Witness ==
    /\ prog = "cal"
    /\ Len(cal.psnr_values) >= 2
    /\ cal.psnr_values[1] # cal.psnr_values[2]
    /\ cal.ssim_values[1] # cal.ssim_values[2]

=============================================================================
